---- MODULE Spec2Model ----
(***************************************************************************)
(* Model of the adaptive attack surface mapper.                            *)
(*                                                                         *)
(*   scanner.py      PortScanner: a pool of worker threads that share one  *)
(*                   FIFO work queue, one lock and one open-ports list,    *)
(*                   all of them fields of the PortScanner instance.       *)
(*   risk_engine.py  RiskEngine: pure lookups and aggregations.            *)
(*   app.py          one module-level PortScanner used by every request.   *)
(*                                                                         *)
(* Specifications:                                                         *)
(*   Spec      scans on the shared instance, invoked one after another     *)
(*   SpecConc  scans on the shared instance that may overlap in time       *)
(*   SpecRisk  the calls of the RiskEngine                                 *)
(***************************************************************************)
EXTENDS Integers, Sequences, FiniteSets, TLC

(***************************************************************************)
(* Bounds                                                                  *)
(***************************************************************************)
\* worker threads per scan (num_threads; the program's default is 200)
NumThreads == 2
\* callers (request threads) that use the one PortScanner instance
NumCallers == 2
\* size of the port universe the requested ranges are taken from
MaxRange == 3

\* activations of scan() over the life of the instance
MaxScans == 2

Callers == 1 .. NumCallers
Threads == 1 .. NumThreads
\* 22 and 23 are in COMMON_SERVICES, 24 is not
Ports == 22 .. (21 + MaxRange)

\* the queue item None, the completion sentinel
None == 0

\* targets: two dotted-quad addresses and a name that does not resolve
Targets == {"10.0.0.5", "10.0.0.6", "no.such.host"}

Resolvable(ip) == ip # "no.such.host"

VARIABLES
    \* ---- PortScanner instance (scanner.py 55-59) ----
    open_ports,        \* self.open_ports: reference to a list of the heap
    lock,              \* self.lock: its holder, <<0, 0>> when free
    queue,             \* self.queue: the items, head first
    unfinished_tasks,  \* self.queue.unfinished_tasks
    \* ---- operating system ----
    open_sockets,      \* open_sockets[c]: sockets that the attempts of
                       \* caller c's scan created and that nothing closed
    \* ---- list objects ----
    heap,              \* heap[r]: contents of the list with reference r
    \* ---- one activation of scan() per caller ----
    pc,                \* position of the caller in scan()
    args,              \* ip, start_port, end_port
    port_i,            \* loop variable of "for port in range(...)"
    stop_i,            \* sentinels put so far
    join_i,            \* threads joined so far
    result,            \* reference returned by scan(), 0 before the return
    \* ---- worker threads, wpc[c][t] is thread t started by caller c ----
    wpc,               \* position of the worker
    wport,             \* its local "port"
    wservice,          \* its local "service"
    \* ---- history ----
    probe,             \* probe[c][p]: outcome of the last attempt that a
                       \* worker of caller c made on port p of the range
                       \* caller c asked for, "none" if there was none
    \* ---- RiskEngine calls ----
    rpc,               \* position in the assessment pipeline
    risk_input,        \* open ports handed to assess_risks
    risk_results,      \* result of assess_risks
    security_score,    \* result of calculate_security_score
    rating,            \* result of get_security_rating
    service_arg,       \* argument of get_risk_profile
    profile,           \* result of get_risk_profile
    attack_scenarios,  \* result of simulate_attack_scenarios
    summary            \* result of generate_executive_summary

scanner_vars == <<open_ports, lock, queue, unfinished_tasks, open_sockets,
                  heap, pc, args, port_i, stop_i, join_i, result, wpc, wport,
                  wservice, probe>>

risk_vars == <<rpc, risk_input, risk_results, security_score, rating,
               service_arg, profile, attack_scenarios, summary>>

vars == <<scanner_vars, risk_vars>>

(***************************************************************************)
(* scanner.py: pure parts                                                  *)
(***************************************************************************)
CommonPorts == {20, 21, 22, 23, 25, 53, 80, 110, 143, 443, 445,
                3306, 3389, 5432, 5900, 8080, 8443}

COMMON_SERVICES == [p \in CommonPorts |->
    CASE p = 20 -> "FTP-DATA"
      [] p = 21 -> "FTP"
      [] p = 22 -> "SSH"
      [] p = 23 -> "Telnet"
      [] p = 25 -> "SMTP"
      [] p = 53 -> "DNS"
      [] p = 80 -> "HTTP"
      [] p = 110 -> "POP3"
      [] p = 143 -> "IMAP"
      [] p = 443 -> "HTTPS"
      [] p = 445 -> "SMB"
      [] p = 3306 -> "MySQL"
      [] p = 3389 -> "RDP"
      [] p = 5432 -> "PostgreSQL"
      [] p = 5900 -> "VNC"
      [] p = 8080 -> "HTTP-Proxy"
      [] p = 8443 -> "HTTPS-Alt"]

\* the names a host's service database can hold for the ports of the
\* model that COMMON_SERVICES does not list
ServDbName(port) ==
    CASE port = 24 -> "priv-mail"
      [] port = 37 -> "time"
      [] OTHER -> ""

\* socket.getservbyport(port, 'tcp'): what the host's service database can
\* answer; "" stands for the OSError "port/proto not found".  The database
\* belongs to the host, so both answers are possible for a port.
getservbyport(port) == {"", ServDbName(port)}

\* str.upper() on the names getservbyport can answer
upper(s) ==
    CASE s = "priv-mail" -> "PRIV-MAIL"
      [] s = "time" -> "TIME"
      [] OTHER -> s

\* get_service_name(port), given the answer db of the host's database
get_service_name(port, db) ==
    IF port \in CommonPorts THEN COMMON_SERVICES[port]
    ELSE IF db # "" THEN upper(db)
    ELSE "Unknown"

\* the names get_service_name can return for a port
ServiceNames(port) == {get_service_name(port, db) : db \in getservbyport(port)}

\* what one connect attempt against ip can do: connect, be refused, time
\* out, be reset, or fail with an OSError other than these (no socket to
\* be had); for a name that does not resolve, fail with socket.gaierror
Outcomes(ip) ==
    IF Resolvable(ip) THEN {"connected", "refused", "timeout", "reset", "oserror"}
    ELSE {"gaierror"}

\* sock.connect_ex((ip, port)) when it returns: 0 or the errno
connect_ex(outcome) ==
    CASE outcome = "connected" -> 0
      [] outcome = "refused" -> 111
      [] outcome = "timeout" -> 11
      [] outcome = "reset" -> 104

\* the sockets of one call of scan_port that are open when it returns.  An
\* attempt that returns from connect_ex is closed (79); one whose socket()
\* fails has no socket.  When connect_ex raises, as it does for a name that
\* does not resolve, close() is skipped and the socket is closed only when
\* the runtime finalizes the unreachable object: as the frame is dropped
\* under reference counting, at some later collection otherwise.
Unclosed(outcome) == IF outcome = "gaierror" THEN {0, 1} ELSE {0}

\* scan_port with the test of the result inverted
scan_port_inverted(outcome) ==
    IF outcome = "gaierror" THEN FALSE
    ELSE IF outcome = "oserror" THEN FALSE
    ELSE connect_ex(outcome) # 0

\* scan_port whose gaierror handler returns True
scan_port_gaierror_open(outcome) ==
    IF outcome = "gaierror" THEN TRUE
    ELSE IF outcome = "oserror" THEN FALSE
    ELSE connect_ex(outcome) = 0

\* scan_port(ip, port) for an attempt with the given outcome: the result
\* of connect_ex compared with 0 (82), False from the handlers (84-92)
scan_port(outcome) ==
    IF outcome = "gaierror" THEN FALSE
    ELSE IF outcome = "oserror" THEN FALSE
    ELSE connect_ex(outcome) = 0

\* list.sort(key=lambda x: x['port']): stable insertion by port
RECURSIVE InsertByPort(_, _)
InsertByPort(e, s) ==
    IF s = <<>> THEN <<e>>
    ELSE IF s[Len(s)].port <= e.port THEN Append(s, e)
    ELSE Append(InsertByPort(e, SubSeq(s, 1, Len(s) - 1)), s[Len(s)])

\* the results left in the order the workers appended them
SortByPortSkipped(s) == s

RECURSIVE SortByPort(_)
SortByPort(s) ==
    IF s = <<>> THEN <<>>
    ELSE InsertByPort(s[Len(s)], SortByPort(SubSeq(s, 1, Len(s) - 1)))

(***************************************************************************)
(* risk_engine.py                                                          *)
(***************************************************************************)
\* open ports handed to one assess_risks call at most
MaxOpen == 4

RiskLevelNames == {"HIGH", "MEDIUM", "LOW"}

RISK_LEVELS == [l \in RiskLevelNames |->
    CASE l = "HIGH" -> [score |-> 30, color |-> "#dc3545"]
      [] l = "MEDIUM" -> [score |-> 15, color |-> "#ffc107"]
      [] l = "LOW" -> [score |-> 5, color |-> "#28a745"]]

ServiceRiskNames == {"Telnet", "FTP", "SMB", "RDP", "VNC", "MySQL", "PostgreSQL", "HTTP", "HTTP-Proxy", "HTTPS-Alt", "SMTP", "POP3", "IMAP", "DNS", "HTTPS", "SSH", "FTP-DATA", "Unknown"}

SERVICE_RISKS == [s \in ServiceRiskNames |->
    CASE
         s = "Telnet" ->
          [risk |-> "HIGH",
           reason |-> "Unencrypted protocol transmitting credentials in plaintext",
           mitigation |-> "Replace with SSH. Disable Telnet service immediately."]
      [] s = "FTP" ->
          [risk |-> "HIGH",
           reason |-> "Unencrypted file transfer with plaintext authentication",
           mitigation |-> "Use SFTP or FTPS. Configure with strong authentication."]
      [] s = "SMB" ->
          [risk |-> "HIGH",
           reason |-> "Vulnerable to ransomware and lateral movement attacks",
           mitigation |-> "Restrict access with firewall rules. Keep SMB version updated. Enable SMB signing."]
      [] s = "RDP" ->
          [risk |-> "HIGH",
           reason |-> "Common target for brute-force attacks and exploitation",
           mitigation |-> "Use VPN for access. Enable Network Level Authentication. Implement MFA."]
      [] s = "VNC" ->
          [risk |-> "HIGH",
           reason |-> "Often configured with weak passwords or no encryption",
           mitigation |-> "Use SSH tunneling. Implement strong authentication. Consider alternatives."]
      [] s = "MySQL" ->
          [risk |-> "HIGH",
           reason |-> "Database exposed to internet increases attack surface",
           mitigation |-> "Bind to localhost only. Use firewall rules. Implement strong passwords."]
      [] s = "PostgreSQL" ->
          [risk |-> "HIGH",
           reason |-> "Database service should not be publicly accessible",
           mitigation |-> "Restrict to internal network. Use pg_hba.conf properly. Enable SSL."]
      [] s = "HTTP" ->
          [risk |-> "MEDIUM",
           reason |-> "Unencrypted web traffic vulnerable to interception",
           mitigation |-> "Implement HTTPS with valid SSL/TLS certificates. Redirect HTTP to HTTPS."]
      [] s = "HTTP-Proxy" ->
          [risk |-> "MEDIUM",
           reason |-> "Proxy service may allow unauthorized access",
           mitigation |-> "Implement authentication. Restrict access by IP whitelist."]
      [] s = "HTTPS-Alt" ->
          [risk |-> "MEDIUM",
           reason |-> "Non-standard HTTPS port may be misconfigured",
           mitigation |-> "Ensure proper SSL/TLS configuration. Use standard ports when possible."]
      [] s = "SMTP" ->
          [risk |-> "MEDIUM",
           reason |-> "Mail server can be abused for spam or relay attacks",
           mitigation |-> "Configure SPF, DKIM, DMARC. Disable open relay. Use authentication."]
      [] s = "POP3" ->
          [risk |-> "MEDIUM",
           reason |-> "Unencrypted email retrieval protocol",
           mitigation |-> "Use POP3S (SSL/TLS). Consider IMAP with encryption instead."]
      [] s = "IMAP" ->
          [risk |-> "MEDIUM",
           reason |-> "Email protocol without encryption",
           mitigation |-> "Use IMAPS (SSL/TLS). Enforce strong authentication."]
      [] s = "DNS" ->
          [risk |-> "MEDIUM",
           reason |-> "DNS server may be vulnerable to amplification attacks",
           mitigation |-> "Restrict recursive queries. Implement rate limiting. Use DNSSEC."]
      [] s = "HTTPS" ->
          [risk |-> "LOW",
           reason |-> "Encrypted web service (validate certificate and configuration)",
           mitigation |-> "Keep SSL/TLS updated. Use strong ciphers. Monitor certificate expiration."]
      [] s = "SSH" ->
          [risk |-> "LOW",
           reason |-> "Secure but requires proper configuration",
           mitigation |-> "Disable password auth. Use key-based authentication. Change default port."]
      [] s = "FTP-DATA" ->
          [risk |-> "LOW",
           reason |-> "FTP data channel (assess based on FTP configuration)",
           mitigation |-> "Secure if using FTPS. Otherwise follow FTP mitigation strategies."]
      [] s = "Unknown" ->
          [risk |-> "MEDIUM",
           reason |-> "Unidentified service requires investigation",
           mitigation |-> "Investigate service identity. Close if unnecessary. Ensure proper security."]]

\* get_risk_profile without the default of dict.get
get_risk_profile_no_default(service) ==
    IF service \in ServiceRiskNames THEN SERVICE_RISKS[service]
    ELSE [risk |-> "NONE", reason |-> "", mitigation |-> ""]

\* self.SERVICE_RISKS.get(service, self.SERVICE_RISKS['Unknown'])
get_risk_profile(service) ==
    IF service \in ServiceRiskNames THEN SERVICE_RISKS[service]
    ELSE SERVICE_RISKS["Unknown"]

\* one result of the loop of assess_risks
Assessment(port_info) ==
    LET risk_profile == get_risk_profile(port_info.service)
    IN  [port |-> port_info.port,
         service |-> port_info.service,
         risk_level |-> risk_profile.risk,
         risk_color |-> RISK_LEVELS[risk_profile.risk].color,
         reason |-> risk_profile.reason,
         mitigation |-> risk_profile.mitigation]

\* assess_risks whose loop leaves out the last open port
assess_risks_without_last(open) ==
    [i \in 1 .. (Len(open) - 1) |-> Assessment(open[i])]

assess_risks(open) == [i \in DOMAIN open |-> Assessment(open[i])]

\* the loop "total_risk += self.RISK_LEVELS[risk_level]['score']"
RECURSIVE total_risk(_)
total_risk(risk) ==
    IF risk = <<>> THEN 0
    ELSE total_risk(SubSeq(risk, 1, Len(risk) - 1))
            + RISK_LEVELS[risk[Len(risk)].risk_level].score

max(a, b) == IF a >= b THEN a ELSE b

\* calculate_security_score without the cap at 0
calculate_security_score_no_cap(risk) ==
    IF risk = <<>> THEN 100 ELSE 100 - total_risk(risk)

\* calculate_security_score whose loop weighs the first result twice
calculate_security_score_first_twice(risk) ==
    IF risk = <<>> THEN 100
    ELSE max(0, 100 - (total_risk(risk) + RISK_LEVELS[risk[1].risk_level].score))

calculate_security_score(risk) ==
    IF risk = <<>> THEN 100 ELSE max(0, 100 - total_risk(risk))

\* get_security_rating with "score > 90" for the first test
get_security_rating_strict(score) ==
    IF score > 90 THEN
        [rating |-> "EXCELLENT",
         description |-> "Very secure configuration with minimal attack surface",
         color |-> "#28a745"]
    ELSE IF score >= 70 THEN
        [rating |-> "GOOD",
         description |-> "Secure with minor improvements needed",
         color |-> "#20c997"]
    ELSE IF score >= 50 THEN
        [rating |-> "FAIR",
         description |-> "Moderate security concerns require attention",
         color |-> "#ffc107"]
    ELSE IF score >= 30 THEN
        [rating |-> "POOR",
         description |-> "Significant security vulnerabilities present",
         color |-> "#fd7e14"]
    ELSE
        [rating |-> "CRITICAL",
         description |-> "Severe security issues requiring immediate action",
         color |-> "#dc3545"]

get_security_rating(score) ==
    IF score >= 90 THEN
        [rating |-> "EXCELLENT",
         description |-> "Very secure configuration with minimal attack surface",
         color |-> "#28a745"]
    ELSE IF score >= 70 THEN
        [rating |-> "GOOD",
         description |-> "Secure with minor improvements needed",
         color |-> "#20c997"]
    ELSE IF score >= 50 THEN
        [rating |-> "FAIR",
         description |-> "Moderate security concerns require attention",
         color |-> "#ffc107"]
    ELSE IF score >= 30 THEN
        [rating |-> "POOR",
         description |-> "Significant security vulnerabilities present",
         color |-> "#fd7e14"]
    ELSE
        [rating |-> "CRITICAL",
         description |-> "Severe security issues requiring immediate action",
         color |-> "#dc3545"]

\* [r for r in risk_results if r['risk_level'] == level]
OfLevel(risk, level) == SelectSeq(risk, LAMBDA r : r.risk_level = level)

\* sum(1 for r in risk_results if r['risk_level'] == level)
CountLevel(risk, level) == Len(OfLevel(risk, level))

\* priority_actions that ends with the maintain-posture entry in every case
priority_actions_always_maintain(high_count, medium_count) ==
    (IF high_count > 0
     THEN <<"Address " \o ToString(high_count) \o " HIGH risk service(s) immediately">>
     ELSE <<>>)
    \o (IF medium_count > 0
        THEN <<"Review " \o ToString(medium_count) \o " MEDIUM risk service(s)">>
        ELSE <<>>)
    \o <<"Continue monitoring and maintain security posture">>

\* the priority_actions of generate_executive_summary
priority_actions(high_count, medium_count) ==
    LET found ==
            (IF high_count > 0
             THEN <<"Address " \o ToString(high_count) \o " HIGH risk service(s) immediately">>
             ELSE <<>>)
         \o (IF medium_count > 0
             THEN <<"Review " \o ToString(medium_count) \o " MEDIUM risk service(s)">>
             ELSE <<>>)
    IN  IF found = <<>>
        THEN <<"Continue monitoring and maintain security posture">>
        ELSE found

generate_executive_summary(risk, score) ==
    LET high_count == CountLevel(risk, "HIGH")
        medium_count == CountLevel(risk, "MEDIUM")
        low_count == CountLevel(risk, "LOW")
        r == get_security_rating(score)
    IN  [security_score |-> score,
         rating |-> r.rating,
         rating_description |-> r.description,
         rating_color |-> r.color,
         total_open_ports |-> Len(risk),
         high_risk_count |-> high_count,
         medium_risk_count |-> medium_count,
         low_risk_count |-> low_count,
         priority_actions |-> priority_actions(high_count, medium_count)]

\* f"{r['service']}({r['port']})"
ServicePort(r) == r.service \o "(" \o ToString(r.port) \o ")"

\* ', '.join([f"{r['service']}({r['port']})" for r in ports])
RECURSIVE JoinServices(_)
JoinServices(ports) ==
    IF ports = <<>> THEN ""
    ELSE IF Len(ports) = 1 THEN ServicePort(ports[1])
    ELSE JoinServices(SubSeq(ports, 1, Len(ports) - 1)) \o ", " \o ServicePort(ports[Len(ports)])

\* any(r['service'] in group for r in ports)
AnyService(ports, group) == \E i \in DOMAIN ports : ports[i].service \in group

\* the narratives of simulate_attack_scenarios (311-315, 318-322, ...)
RemoteAccessText(high_services) ==
    "CRITICAL: Remote Access Exploitation - Detected remote access services ("
    \o high_services
    \o "). Attackers could exploit weak credentials or protocol vulnerabilities to gain initial system access. Implement MFA, use VPN, and enforce strong password policies."

LateralMovementText(high_services) ==
    "CRITICAL: Lateral Movement Vector - Detected file sharing/transfer protocols ("
    \o high_services
    \o "). Successfully compromised systems could leverage these services to move laterally across the network and exfiltrate sensitive data."

DatabaseText(high_services) ==
    "CRITICAL: Database Compromise - Exposed database services ("
    \o high_services
    \o ") are prime targets. Direct database access bypasses application security controls and could lead to complete data breach. Implement network segmentation immediately."

CredentialText ==
    "CRITICAL: Credential Interception - Telnet transmits all data including credentials in plaintext. Network-based attackers can intercept login credentials without any special tools. This service must be disabled and replaced with SSH."

DesktopText ==
    "CRITICAL: Remote Desktop Hijacking - VNC services often have weak or default passwords. Attackers can gain interactive desktop access for reconnaissance, data theft, or deploying malware. Enforce encryption and multi-factor authentication."

WebText(medium_services) ==
    "HIGH: Web Service Exploitation - Detected web services ("
    \o medium_services
    \o "). These are common attack vectors for credential harvesting, session hijacking, or application exploits. Ensure all web services use HTTPS, apply security patches, and implement Web Application Firewalls."

EmailText(medium_services) ==
    "HIGH: Email Service Abuse - Detected email services ("
    \o medium_services
    \o "). Misconfigured mail servers can be exploited as open relays for spam, phishing campaigns, or credential attacks. Enforce authentication, disable unnecessary protocols, and implement email filtering."

DnsText ==
    "HIGH: DNS Infrastructure Abuse - Exposed DNS services can be exploited for cache poisoning, DNS amplification attacks, or unauthorized zone transfers. Implement access controls, rate limiting, and DNSSEC."

VigilanceText(low_services) ==
    "RECOMMENDED: Maintain Vigilance - Detected low-risk services ("
    \o low_services
    \o "). While these services have proper security controls, continuous monitoring is essential. Keep systems patched, monitor logs for suspicious activity, and maintain security awareness."

\* the source text opens with a warning sign, written (!) here
CriticalSummaryText(n) ==
    "(!)  ATTACK SURFACE SUMMARY: System has " \o ToString(n)
    \o " critical vulnerabilities. This represents a HIGH risk of compromise. Prioritize immediate remediation of all HIGH risk services to prevent unauthorized access and data breach."

ModerateSummaryText(n) ==
    "ATTACK SURFACE SUMMARY: System has " \o ToString(n)
    \o " moderate vulnerabilities. These should be addressed within your regular patch and hardening cycle. Implement layered defenses."

MinimalSummaryText ==
    "ATTACK SURFACE SUMMARY: System shows minimal attack surface with only low-risk services detected. Maintain current security posture through regular monitoring and updates."

NoOpenPortsText == "No open ports detected. Current attack surface is minimal."

\* "if high_risk_ports:" (307-343)
HighScenarios(high_risk_ports) ==
    LET high_services == JoinServices(high_risk_ports)
    IN  IF high_risk_ports = <<>> THEN <<>>
        ELSE (IF AnyService(high_risk_ports, {"RDP", "SSH", "Telnet"})
              THEN <<RemoteAccessText(high_services)>> ELSE <<>>)
          \o (IF AnyService(high_risk_ports, {"SMB", "FTP"})
              THEN <<LateralMovementText(high_services)>> ELSE <<>>)
          \o (IF AnyService(high_risk_ports, {"MySQL", "PostgreSQL"})
              THEN <<DatabaseText(high_services)>> ELSE <<>>)
          \o (IF AnyService(high_risk_ports, {"Telnet"})
              THEN <<CredentialText>> ELSE <<>>)
          \o (IF AnyService(high_risk_ports, {"VNC"})
              THEN <<DesktopText>> ELSE <<>>)

\* "if medium_risk_ports:" (346-367)
\* the MEDIUM rules as an if/elif chain: only the first matching rule fires
MediumScenarios_first_match(medium_risk_ports) ==
    LET medium_services == JoinServices(medium_risk_ports)
    IN  IF medium_risk_ports = <<>> THEN <<>>
        ELSE IF AnyService(medium_risk_ports, {"HTTP", "HTTP-Proxy", "HTTPS-Alt"})
        THEN <<WebText(medium_services)>>
        ELSE IF AnyService(medium_risk_ports, {"SMTP", "POP3", "IMAP"})
        THEN <<EmailText(medium_services)>>
        ELSE IF AnyService(medium_risk_ports, {"DNS"})
        THEN <<DnsText>>
        ELSE <<>>

MediumScenarios(medium_risk_ports) ==
    LET medium_services == JoinServices(medium_risk_ports)
    IN  IF medium_risk_ports = <<>> THEN <<>>
        ELSE (IF AnyService(medium_risk_ports, {"HTTP", "HTTP-Proxy", "HTTPS-Alt"})
              THEN <<WebText(medium_services)>> ELSE <<>>)
          \o (IF AnyService(medium_risk_ports, {"SMTP", "POP3", "IMAP"})
              THEN <<EmailText(medium_services)>> ELSE <<>>)
          \o (IF AnyService(medium_risk_ports, {"DNS"})
              THEN <<DnsText>> ELSE <<>>)

\* "if low_risk_ports:" (370-377)
LowScenarios(low_risk_ports) ==
    IF low_risk_ports = <<>> THEN <<>>
    ELSE <<VigilanceText(JoinServices(low_risk_ports))>>

\* the overall attack surface summary (380-395)
\* the overall summary with the MEDIUM test ahead of the HIGH test
SummaryScenario_medium_first(high_risk_ports, medium_risk_ports) ==
    IF Len(medium_risk_ports) > 0 THEN ModerateSummaryText(Len(medium_risk_ports))
    ELSE IF Len(high_risk_ports) > 0 THEN CriticalSummaryText(Len(high_risk_ports))
    ELSE MinimalSummaryText

SummaryScenario(high_risk_ports, medium_risk_ports) ==
    IF Len(high_risk_ports) > 0 THEN CriticalSummaryText(Len(high_risk_ports))
    ELSE IF Len(medium_risk_ports) > 0 THEN ModerateSummaryText(Len(medium_risk_ports))
    ELSE MinimalSummaryText

\* simulate_attack_scenarios without the early return for no results
simulate_attack_scenarios_no_early_return(risk) ==
    HighScenarios(OfLevel(risk, "HIGH"))
    \o MediumScenarios(OfLevel(risk, "MEDIUM"))
    \o LowScenarios(OfLevel(risk, "LOW"))
    \o <<SummaryScenario(OfLevel(risk, "HIGH"), OfLevel(risk, "MEDIUM"))>>

\* simulate_attack_scenarios that appends the LOW narrative first
simulate_attack_scenarios_low_first(risk) ==
    IF risk = <<>> THEN <<NoOpenPortsText>>
    ELSE LowScenarios(OfLevel(risk, "LOW"))
         \o HighScenarios(OfLevel(risk, "HIGH"))
         \o MediumScenarios(OfLevel(risk, "MEDIUM"))
         \o <<SummaryScenario(OfLevel(risk, "HIGH"), OfLevel(risk, "MEDIUM"))>>

simulate_attack_scenarios(risk) ==
    IF risk = <<>> THEN <<NoOpenPortsText>>
    ELSE HighScenarios(OfLevel(risk, "HIGH"))
         \o MediumScenarios(OfLevel(risk, "MEDIUM"))
         \o LowScenarios(OfLevel(risk, "LOW"))
         \o <<SummaryScenario(OfLevel(risk, "HIGH"), OfLevel(risk, "MEDIUM"))>>

\* values of the result variables before the call that sets them
NoRating == [rating |-> "", description |-> "", color |-> ""]

NoProfile == [risk |-> "", reason |-> "", mitigation |-> ""]

NoSummary ==
    [security_score |-> 0, rating |-> "", rating_description |-> "",
     rating_color |-> "", total_open_ports |-> 0, high_risk_count |-> 0,
     medium_risk_count |-> 0, low_risk_count |-> 0, priority_actions |-> <<>>]

(***************************************************************************)
(* Initial state: app.py builds one PortScanner and one RiskEngine         *)
(***************************************************************************)
NoArgs == [ip |-> "", start_port |-> 0, end_port |-> 0]

Init ==
    /\ heap = << <<>> >>
    /\ open_ports = 1
    /\ lock = <<0, 0>>
    /\ queue = <<>>
    /\ unfinished_tasks = 0
    /\ open_sockets = [c \in Callers |-> 0]
    /\ pc = [c \in Callers |-> "idle"]
    /\ args = [c \in Callers |-> NoArgs]
    /\ port_i = [c \in Callers |-> 0]
    /\ stop_i = [c \in Callers |-> 0]
    /\ join_i = [c \in Callers |-> 0]
    /\ result = [c \in Callers |-> 0]
    /\ wpc = [c \in Callers |-> [t \in Threads |-> "none"]]
    /\ wport = [c \in Callers |-> [t \in Threads |-> 0]]
    /\ wservice = [c \in Callers |-> [t \in Threads |-> ""]]
    /\ probe = [c \in Callers |-> [p \in Ports |-> "none"]]
    /\ rpc = "start"
    /\ risk_input = <<>>
    /\ risk_results = <<>>
    /\ security_score = 0
    /\ rating = NoRating
    /\ service_arg = ""
    /\ profile = NoProfile
    /\ attack_scenarios = <<>>
    /\ summary = NoSummary

(***************************************************************************)
(* PortScanner.scan, the coordinator                                       *)
(***************************************************************************)
\* the heap once self.open_ports is rebound: a list that no caller holds
\* is unreachable from then on, and its contents are dropped
Collected ==
    [r \in DOMAIN heap |->
        IF \E d \in Callers : result[d] = r THEN heap[r] ELSE <<>>]

\* scan() is entered: reset the results (154), start the workers (163-168)
ScanBegin(c) ==
    /\ pc[c] = "idle"
    /\ Len(heap) <= MaxScans
    /\ \E ip \in Targets, sp \in Ports, ep \in Ports :
        /\ sp < ep
        /\ args' = [args EXCEPT ![c] = [ip |-> ip, start_port |-> sp, end_port |-> ep]]
        /\ port_i' = [port_i EXCEPT ![c] = sp]
    /\ heap' = Append(Collected, <<>>)
    /\ open_ports' = Len(heap) + 1
    /\ wpc' = [wpc EXCEPT ![c] = [t \in Threads |-> "get"]]
    /\ wport' = [wport EXCEPT ![c] = [t \in Threads |-> 0]]
    /\ wservice' = [wservice EXCEPT ![c] = [t \in Threads |-> ""]]
    /\ probe' = [probe EXCEPT ![c] = [p \in Ports |-> "none"]]
    /\ stop_i' = [stop_i EXCEPT ![c] = 0]
    /\ join_i' = [join_i EXCEPT ![c] = 0]
    /\ result' = [result EXCEPT ![c] = 0]
    /\ pc' = [pc EXCEPT ![c] = "put_ports"]
    /\ UNCHANGED <<lock, queue, unfinished_tasks, open_sockets, risk_vars>>

\* one iteration of "for port in range(start_port, end_port + 1): put" (171-172)
PutPort(c) ==
    /\ pc[c] = "put_ports"
    /\ queue' = Append(queue, port_i[c])
    /\ unfinished_tasks' = unfinished_tasks + 1
    /\ port_i' = [port_i EXCEPT ![c] = port_i[c] + 1]
    /\ pc' = [pc EXCEPT ![c] = IF port_i[c] = args[c].end_port
                                 THEN "join_queue" ELSE "put_ports"]
    /\ UNCHANGED <<open_ports, lock, heap, args, stop_i, join_i, result, wpc,
                   wport, wservice, probe, open_sockets, risk_vars>>

\* self.queue.join() (175): returns once no task is unfinished
JoinQueue(c) ==
    /\ pc[c] = "join_queue"
    /\ unfinished_tasks = 0
    /\ pc' = [pc EXCEPT ![c] = "put_stop"]
    /\ UNCHANGED <<open_ports, lock, queue, unfinished_tasks, heap, args,
                   port_i, stop_i, join_i, result, wpc, wport, wservice, probe,
                   open_sockets, risk_vars>>

\* one iteration of "for _ in range(num_threads): put(None)" (178-179)
PutStop(c) ==
    /\ pc[c] = "put_stop"
    /\ queue' = Append(queue, None)
    /\ unfinished_tasks' = unfinished_tasks + 1
    /\ stop_i' = [stop_i EXCEPT ![c] = stop_i[c] + 1]
    /\ pc' = [pc EXCEPT ![c] = IF stop_i[c] + 1 = NumThreads
                                 THEN "join_threads" ELSE "put_stop"]
    /\ UNCHANGED <<open_ports, lock, heap, args, port_i, join_i, result, wpc,
                   wport, wservice, probe, open_sockets, risk_vars>>

\* thread.join() that does not wait for the thread to end
JoinThreadNoWait(c) ==
    /\ pc[c] = "join_threads"
    /\ join_i' = [join_i EXCEPT ![c] = join_i[c] + 1]
    /\ pc' = [pc EXCEPT ![c] = IF join_i[c] + 1 = NumThreads
                                 THEN "sort" ELSE "join_threads"]
    /\ UNCHANGED <<open_ports, lock, queue, unfinished_tasks, heap, args,
                   port_i, stop_i, result, wpc, wport, wservice, probe,
                   open_sockets, risk_vars>>

\* one iteration of "for thread in threads: thread.join()" (181-182)
JoinThread(c) ==
    /\ pc[c] = "join_threads"
    /\ wpc[c][join_i[c] + 1] = "exit"
    /\ join_i' = [join_i EXCEPT ![c] = join_i[c] + 1]
    /\ pc' = [pc EXCEPT ![c] = IF join_i[c] + 1 = NumThreads
                                 THEN "sort" ELSE "join_threads"]
    /\ UNCHANGED <<open_ports, lock, queue, unfinished_tasks, heap, args,
                   port_i, stop_i, result, wpc, wport, wservice, probe,
                   open_sockets, risk_vars>>

\* self.open_ports.sort(key=...) (193)
SortResults(c) ==
    /\ pc[c] = "sort"
    /\ heap' = [heap EXCEPT ![open_ports] = SortByPort(heap[open_ports])]
    /\ pc' = [pc EXCEPT ![c] = "return"]
    /\ UNCHANGED <<open_ports, lock, queue, unfinished_tasks, args, port_i,
                   stop_i, join_i, result, wpc, wport, wservice, probe,
                   open_sockets, risk_vars>>

\* return self.open_ports (195)
ScanReturn(c) ==
    /\ pc[c] = "return"
    /\ result' = [result EXCEPT ![c] = open_ports]
    /\ pc' = [pc EXCEPT ![c] = "returned"]
    /\ UNCHANGED <<open_ports, lock, queue, unfinished_tasks, heap, args,
                   port_i, stop_i, join_i, wpc, wport, wservice, probe,
                   open_sockets, risk_vars>>

\* the caller is done with the call: its frame and its threads are dropped,
\* and with them what was recorded of the call's attempts
ScanEnd(c) ==
    /\ pc[c] = "returned"
    /\ pc' = [pc EXCEPT ![c] = "idle"]
    /\ args' = [args EXCEPT ![c] = NoArgs]
    /\ port_i' = [port_i EXCEPT ![c] = 0]
    /\ stop_i' = [stop_i EXCEPT ![c] = 0]
    /\ join_i' = [join_i EXCEPT ![c] = 0]
    /\ result' = [result EXCEPT ![c] = 0]
    /\ wpc' = [wpc EXCEPT ![c] = [t \in Threads |-> "none"]]
    /\ probe' = [probe EXCEPT ![c] = [p \in Ports |-> "none"]]
    /\ open_sockets' = [open_sockets EXCEPT ![c] = 0]
    /\ UNCHANGED <<open_ports, lock, queue, unfinished_tasks, heap, wport,
                   wservice, risk_vars>>

(***************************************************************************)
(* PortScanner.worker                                                      *)
(***************************************************************************)
\* port = self.queue.get(); if port is None: break (123-125)
WorkerGet(c, t) ==
    /\ wpc[c][t] = "get"
    /\ queue # <<>>
    /\ queue' = Tail(queue)
    /\ wport' = [wport EXCEPT ![c][t] = Head(queue)]
    /\ wpc' = [wpc EXCEPT ![c][t] = IF Head(queue) = None THEN "exit" ELSE "scan_port"]
    /\ UNCHANGED <<open_ports, lock, unfinished_tasks, heap, pc, args, port_i,
                   stop_i, join_i, result, wservice, probe, open_sockets,
                   risk_vars>>

\* if self.scan_port(ip, port): service = self.get_service_name(port) (128-129)
WorkerScanPort(c, t) ==
    /\ wpc[c][t] = "scan_port"
    /\ \E outcome \in Outcomes(args[c].ip) :
        /\ probe' = IF wport[c][t] \in args[c].start_port .. args[c].end_port
                    THEN [probe EXCEPT ![c][wport[c][t]] = outcome]
                    ELSE probe
        /\ open_sockets' \in
              {[open_sockets EXCEPT ![c] = @ + n] : n \in Unclosed(outcome)}
        /\ IF scan_port(outcome)
           THEN /\ \E service \in ServiceNames(wport[c][t]) :
                      wservice' = [wservice EXCEPT ![c][t] = service]
                /\ wpc' = [wpc EXCEPT ![c][t] = "lock"]
           ELSE /\ wservice' = wservice
                /\ wpc' = [wpc EXCEPT ![c][t] = "task_done"]
    /\ UNCHANGED <<open_ports, lock, queue, unfinished_tasks, heap, pc, args,
                   port_i, stop_i, join_i, result, wport, risk_vars>>

\* entering the with block without waiting for the lock to be free
WorkerLockNoWait(c, t) ==
    /\ wpc[c][t] = "lock"
    /\ lock' = <<c, t>>
    /\ wpc' = [wpc EXCEPT ![c][t] = "append"]
    /\ UNCHANGED <<open_ports, queue, unfinished_tasks, heap, pc, args, port_i,
                   stop_i, join_i, result, wport, wservice, probe,
                   open_sockets, risk_vars>>

\* with self.lock: entering (132)
WorkerLock(c, t) ==
    /\ wpc[c][t] = "lock"
    /\ lock = <<0, 0>>
    /\ lock' = <<c, t>>
    /\ wpc' = [wpc EXCEPT ![c][t] = "append"]
    /\ UNCHANGED <<open_ports, queue, unfinished_tasks, heap, pc, args, port_i,
                   stop_i, join_i, result, wport, wservice, probe,
                   open_sockets, risk_vars>>

\* self.open_ports.append({...}) and leaving the with block (133-137)
WorkerAppend(c, t) ==
    /\ wpc[c][t] = "append"
    /\ heap' = [heap EXCEPT ![open_ports] =
                   Append(@, [port |-> wport[c][t], service |-> wservice[c][t]])]
    /\ lock' = <<0, 0>>
    /\ wpc' = [wpc EXCEPT ![c][t] = "task_done"]
    /\ UNCHANGED <<open_ports, queue, unfinished_tasks, pc, args, port_i,
                   stop_i, join_i, result, wport, wservice, probe,
                   open_sockets, risk_vars>>

\* self.queue.task_done() (139), then back to the head of the loop, where
\* the locals of the finished iteration are dead
WorkerTaskDone(c, t) ==
    /\ wpc[c][t] = "task_done"
    /\ unfinished_tasks > 0
    /\ unfinished_tasks' = unfinished_tasks - 1
    /\ wport' = [wport EXCEPT ![c][t] = 0]
    /\ wservice' = [wservice EXCEPT ![c][t] = ""]
    /\ wpc' = [wpc EXCEPT ![c][t] = "get"]
    /\ UNCHANGED <<open_ports, lock, queue, heap, pc, args, port_i, stop_i,
                   join_i, result, probe, open_sockets, risk_vars>>

(***************************************************************************)
(* Specifications of the scanner                                           *)
(***************************************************************************)
\* no activation of scan() is in progress on the instance
NoScanActive == \A c \in Callers : pc[c] = "idle"

\* a caller that invokes scan() only when no other invocation is in progress
ScanCallSerial(c) == NoScanActive /\ ScanBegin(c)

ScanSteps ==
    \E c \in Callers :
        \/ PutPort(c)
        \/ JoinQueue(c)
        \/ PutStop(c)
        \/ JoinThread(c)
        \/ SortResults(c)
        \/ ScanReturn(c)
        \/ ScanEnd(c)
        \/ \E t \in Threads :
            \/ WorkerGet(c, t)
            \/ WorkerScanPort(c, t)
            \/ WorkerLock(c, t)
            \/ WorkerAppend(c, t)
            \/ WorkerTaskDone(c, t)

Next == (\E c \in Callers : ScanCallSerial(c)) \/ ScanSteps

Spec == Init /\ [][Next]_vars

\* a caller that invokes scan() whatever the other callers are doing; the
\* overlapping requests are for different targets, the first caller's for
\* 10.0.0.5 and the others' for 10.0.0.6, caller c asking for the two ports
\* from 21 + c on
ScanCallOverlap(c) ==
    /\ ScanBegin(c)
    /\ args'[c].ip = IF c = 1 THEN "10.0.0.5" ELSE "10.0.0.6"
    /\ args'[c].start_port = 21 + c
    /\ args'[c].end_port = 22 + c

NextConc == (\E c \in Callers : ScanCallOverlap(c)) \/ ScanSteps

SpecConc == Init /\ [][NextConc]_vars

(***************************************************************************)
(* Claims about the scanner                                                *)
(***************************************************************************)
\* scan() has returned to caller c, which holds the returned list
Returned(c) == pc[c] = "returned"

\* the list scan() returned to caller c
Result(c) == heap[result[c]]

\* the range caller c asked for
Range(c) == args[c].start_port .. args[c].end_port

PortsOf(s) == {s[i].port : i \in DOMAIN s}

\* strictly ascending by port: sorted and without a port twice
Ascending(s) == \A i, j \in DOMAIN s : i < j => s[i].port < s[j].port

\* the ports of its range that caller c's workers found connected
Connected(c) == {p \in Range(c) : probe[c][p] = "connected"}

\* C1: whenever scan() has returned, every port of the returned list lies in
\* the requested range, no port appears twice and the list is ascending by
\* port, whatever the order in which the workers appended.
C1_RangeUniqueSorted ==
    \A c \in Callers : Returned(c) =>
        /\ PortsOf(Result(c)) \subseteq Range(c)
        /\ Ascending(Result(c))

\* a scan has returned three open ports
C1_Witness ==
    \E c \in Callers : Returned(c) /\ Len(Result(c)) >= 3

\* C2: the ports of the returned list are exactly the ports of the range
\* whose connect attempt succeeded; refused, timed out and reset attempts
\* leave no entry and do not keep scan() from returning; every entry carries
\* the service name resolved for its port.
C2_ExactlyConnected ==
    \A c \in Callers : Returned(c) =>
        /\ PortsOf(Result(c)) = Connected(c)
        /\ \A p \in Range(c) :
              probe[c][p] \in {"refused", "timeout", "reset"} => p \notin PortsOf(Result(c))
        /\ \A i \in DOMAIN Result(c) :
              Result(c)[i].service \in ServiceNames(Result(c)[i].port)

\* a scan has returned with one port connected, one refused and one timed out
C2_Witness ==
    \E c \in Callers : Returned(c) /\
        \E p, q, r \in Range(c) :
            /\ probe[c][p] = "connected"
            /\ probe[c][q] = "refused"
            /\ probe[c][r] = "timeout"
            /\ Len(Result(c)) = 1

\* C3: scan() does not return before every port of the range has been taken
\* from the queue and attempted and every worker has ended and been joined,
\* and the returned list does not change while the caller holds it.
C3_NoEarlyReturn ==
    /\ [](\A c \in Callers : Returned(c) =>
            /\ \A p \in Range(c) : probe[c][p] # "none"
            /\ \A i \in DOMAIN queue : queue[i] \notin Range(c)
            /\ \A t \in Threads : wpc[c][t] = "exit"
            /\ join_i[c] = NumThreads)
    /\ [][\A c \in Callers : (Returned(c) /\ pc'[c] = "returned") =>
            /\ result'[c] = result[c]
            /\ heap'[result[c]] = heap[result[c]]]_vars

\* a scan has returned after three ports were attempted
C3_Witness ==
    \E c \in Callers : Returned(c) /\
        /\ args[c].end_port = args[c].start_port + 2
        /\ \A p \in Range(c) : probe[c][p] # "none"

C5_OverlapIsolated ==
    \A c \in Callers : Returned(c) =>
        /\ PortsOf(Result(c)) = Connected(c)
        /\ Ascending(Result(c))

(***************************************************************************)
(* Calls of the RiskEngine                                                 *)
(***************************************************************************)
\* ports of the open-port lists: the ports of COMMON_SERVICES, port 24 on a
\* host whose database does not know it and port 37 on a host that does
SamplePorts == CommonPorts \cup {24, 37}

SampleOpenPort(p) ==
    [port |-> p,
     service |-> get_service_name(p, IF p = 37 THEN ServDbName(p) ELSE "")]

\* the ports of S as a scan returns them: ascending by port
RECURSIVE AscendingList(_)
AscendingList(S) ==
    IF S = {} THEN <<>>
    ELSE LET m == CHOOSE x \in S : \A y \in S : x <= y
         IN  <<SampleOpenPort(m)>> \o AscendingList(S \ {m})

\* the sample data of the module's self-test
test_ports ==
    <<[port |-> 22, service |-> "SSH"],
      [port |-> 23, service |-> "Telnet"],
      [port |-> 80, service |-> "HTTP"],
      [port |-> 443, service |-> "HTTPS"],
      [port |-> 3389, service |-> "RDP"]>>

\* the lists of up to MaxOpen open ports, and the sample data
OpenPortLists ==
    {AscendingList(S) : S \in {T \in SUBSET SamplePorts : Cardinality(T) <= MaxOpen}}
    \cup {test_ports}

\* service names handed to get_risk_profile: the names of the table and
\* names it does not hold
ServiceArgs == ServiceRiskNames \cup {"TIME", "PRIV-MAIL", "telnet", ""}

\* scores handed to get_security_rating
ScoreArgs == 0 .. 100

\* a call get_risk_profile(service)
GetRiskProfile ==
    /\ rpc = "start"
    /\ \E service \in ServiceArgs :
        /\ service_arg' = service
        /\ profile' = get_risk_profile(service)
    /\ rpc' = "profiled"
    /\ UNCHANGED <<scanner_vars, risk_input, risk_results, security_score,
                   rating, attack_scenarios, summary>>

\* a call get_security_rating(score)
GetSecurityRating ==
    /\ rpc = "start"
    /\ \E score \in ScoreArgs :
        /\ security_score' = score
        /\ rating' = get_security_rating(score)
    /\ rpc' = "rated"
    /\ UNCHANGED <<scanner_vars, risk_input, risk_results, service_arg,
                   profile, attack_scenarios, summary>>

\* risk_results = risk_engine.assess_risks(open_ports) (app.py 117)
AssessRisks ==
    /\ rpc = "start"
    /\ \E open \in OpenPortLists :
        /\ risk_input' = open
        /\ risk_results' = assess_risks(open)
    /\ rpc' = "assessed"
    /\ UNCHANGED <<scanner_vars, security_score, rating, service_arg, profile,
                   attack_scenarios, summary>>

\* security_score = risk_engine.calculate_security_score(risk_results) (121)
CalculateSecurityScore ==
    /\ rpc = "assessed"
    /\ security_score' = calculate_security_score(risk_results)
    /\ rpc' = "scored"
    /\ UNCHANGED <<scanner_vars, risk_input, risk_results, rating, service_arg,
                   profile, attack_scenarios, summary>>

\* attack_simulations = risk_engine.simulate_attack_scenarios(risk_results) (126)
SimulateAttackScenarios ==
    /\ rpc = "scored"
    /\ attack_scenarios' = simulate_attack_scenarios(risk_results)
    /\ rpc' = "simulated"
    /\ UNCHANGED <<scanner_vars, risk_input, risk_results, security_score,
                   rating, service_arg, profile, summary>>

\* summary = risk_engine.generate_executive_summary(risk_results, security_score) (135)
GenerateExecutiveSummary ==
    /\ rpc = "simulated"
    /\ summary' = generate_executive_summary(risk_results, security_score)
    /\ rpc' = "summarized"
    /\ UNCHANGED <<scanner_vars, risk_input, risk_results, security_score,
                   rating, service_arg, profile, attack_scenarios>>

NextRisk ==
    \/ GetRiskProfile
    \/ GetSecurityRating
    \/ AssessRisks
    \/ CalculateSecurityScore
    \/ SimulateAttackScenarios
    \/ GenerateExecutiveSummary

SpecRisk == Init /\ [][NextRisk]_vars

(***************************************************************************)
(* Claims about the RiskEngine                                             *)
(***************************************************************************)
\* calculate_security_score has been applied to risk_results
Scored == rpc \in {"scored", "simulated", "summarized"}

\* the weights of the three tiers, summed over the assessments by tier
WeightOf(risk) ==
    30 * Cardinality({i \in DOMAIN risk : risk[i].risk_level = "HIGH"})
    + 15 * Cardinality({i \in DOMAIN risk : risk[i].risk_level = "MEDIUM"})
    + 5 * Cardinality({i \in DOMAIN risk : risk[i].risk_level = "LOW"})

\* C6: the score is 100 for no assessments, otherwise 100 minus the summed
\* weights (HIGH 30, MEDIUM 15, LOW 5) and 0 when that is negative; it is
\* always in 0..100.
C6_ScoreFormula ==
    Scored =>
        /\ risk_results = <<>> => security_score = 100
        /\ risk_results # <<>> =>
              security_score = (IF WeightOf(risk_results) > 100
                                THEN 0 ELSE 100 - WeightOf(risk_results))
        /\ security_score \in 0 .. 100

\* a score of 0 for assessments that weigh more than 100
C6_Witness ==
    Scored /\ WeightOf(risk_results) > 100 /\ security_score = 0

\* the bijections of 1..n
Perms(n) == {f \in [1 .. n -> 1 .. n] : \A i, j \in 1 .. n : f[i] = f[j] => i = j}

\* the assessment with its tier alone
TierOnly(r) ==
    [port |-> 0, service |-> "", risk_level |-> r.risk_level,
     risk_color |-> "", reason |-> "", mitigation |-> ""]

\* s with e put in front of position k
InsertAt(s, k, e) == SubSeq(s, 1, k - 1) \o <<e>> \o SubSeq(s, k, Len(s))

\* C7: the score of risk_results is the score of each of its permutations,
\* and of each permutation with ports and services blanked out (only the
\* multiset of tiers counts), and putting one more assessment anywhere into
\* the list never gives a higher score.
C7_OrderIndependentMonotone ==
    rpc = "scored" =>
        /\ \A f \in Perms(Len(risk_results)) :
              /\ calculate_security_score(
                     [i \in DOMAIN risk_results |-> risk_results[f[i]]]) = security_score
              /\ calculate_security_score(
                     [i \in DOMAIN risk_results |-> TierOnly(risk_results[f[i]])]) = security_score
        /\ \A p \in SamplePorts, k \in 1 .. Len(risk_results) + 1 :
              calculate_security_score(
                  InsertAt(risk_results, k, Assessment(SampleOpenPort(p)))) <= security_score

\* a score for three assessments of three different tiers
C7_Witness ==
    /\ rpc = "scored"
    /\ Len(risk_results) = 3
    /\ {risk_results[i].risk_level : i \in DOMAIN risk_results} = RiskLevelNames

\* C8: get_risk_profile answers every name: HIGH, MEDIUM and LOW for the
\* names of the rule set, and for every other name, 'Unknown' included, the
\* default entry, whose tier is MEDIUM; the tier is always one of the three.
C8_ProfileTotal ==
    rpc = "profiled" =>
        /\ profile.risk \in RiskLevelNames
        /\ service_arg \in {"Telnet", "FTP", "SMB", "RDP", "VNC", "MySQL", "PostgreSQL"}
              => profile.risk = "HIGH"
        /\ service_arg \in {"HTTP", "HTTP-Proxy", "HTTPS-Alt", "SMTP", "POP3", "IMAP", "DNS"}
              => profile.risk = "MEDIUM"
        /\ service_arg \in {"HTTPS", "SSH", "FTP-DATA"} => profile.risk = "LOW"
        /\ service_arg \notin
              {"Telnet", "FTP", "SMB", "RDP", "VNC", "MySQL", "PostgreSQL",
               "HTTP", "HTTP-Proxy", "HTTPS-Alt", "SMTP", "POP3", "IMAP", "DNS",
               "HTTPS", "SSH", "FTP-DATA"}
              => /\ profile.risk = "MEDIUM"
                 /\ profile.reason = "Unidentified service requires investigation"

\* the profile of a name that is neither in the table nor 'Unknown'
C8_Witness ==
    rpc = "profiled" /\ service_arg = "TIME" /\ profile.risk = "MEDIUM"

\* C9: for a score in 0..100 the rating is EXCELLENT iff score >= 90, GOOD
\* iff 70 <= score <= 89, FAIR iff 50 <= score <= 69, POOR iff
\* 30 <= score <= 49, CRITICAL iff score <= 29.
C9_RatingBoundaries ==
    rpc = "rated" =>
        /\ rating.rating = "EXCELLENT" <=> security_score >= 90
        /\ rating.rating = "GOOD" <=> (70 <= security_score /\ security_score <= 89)
        /\ rating.rating = "FAIR" <=> (50 <= security_score /\ security_score <= 69)
        /\ rating.rating = "POOR" <=> (30 <= security_score /\ security_score <= 49)
        /\ rating.rating = "CRITICAL" <=> security_score <= 29
        /\ rating.rating \in {"EXCELLENT", "GOOD", "FAIR", "POOR", "CRITICAL"}

\* the rating of the boundary score 90
C9_Witness ==
    rpc = "rated" /\ security_score = 90 /\ rating.rating = "EXCELLENT"

\* simulate_attack_scenarios has been applied to risk_results
Simulated == rpc \in {"simulated", "summarized"}

\* C10: for no assessments simulate_attack_scenarios returns one element,
\* the fixed sentence, with no narrative and no summary after it.
C10_EmptySimulation ==
    (Simulated /\ risk_results = <<>>) =>
        /\ Len(attack_scenarios) = 1
        /\ attack_scenarios[1] = "No open ports detected. Current attack surface is minimal."

\* the scenarios of an empty list of assessments
C10_Witness ==
    Simulated /\ risk_results = <<>> /\ attack_scenarios # <<>>

\* s begins with prefix
StartsWith(s, prefix) ==
    Len(s) >= Len(prefix) /\ SubSeq(s, 1, Len(prefix)) = prefix

\* sub occurs in s
Contains(s, sub) ==
    \E k \in 1 .. (Len(s) - Len(sub) + 1) : SubSeq(s, k, k + Len(sub) - 1) = sub

\* the place of a narrative in the order of the contract, by its heading:
\* 1..5 the HIGH-tier narratives, 6..8 the MEDIUM-tier ones, 9 the LOW-tier
\* one, 10 the overall summary, 0 anything else
Rank(s) ==
    IF StartsWith(s, "CRITICAL: Remote Access Exploitation") THEN 1
    ELSE IF StartsWith(s, "CRITICAL: Lateral Movement Vector") THEN 2
    ELSE IF StartsWith(s, "CRITICAL: Database Compromise") THEN 3
    ELSE IF StartsWith(s, "CRITICAL: Credential Interception") THEN 4
    ELSE IF StartsWith(s, "CRITICAL: Remote Desktop Hijacking") THEN 5
    ELSE IF StartsWith(s, "HIGH: Web Service Exploitation") THEN 6
    ELSE IF StartsWith(s, "HIGH: Email Service Abuse") THEN 7
    ELSE IF StartsWith(s, "HIGH: DNS Infrastructure Abuse") THEN 8
    ELSE IF StartsWith(s, "RECOMMENDED: Maintain Vigilance") THEN 9
    ELSE IF \/ StartsWith(s, "ATTACK SURFACE SUMMARY:")
            \/ StartsWith(s, "(!)  ATTACK SURFACE SUMMARY:") THEN 10
    ELSE 0

\* the tier of a place: 1 HIGH, 2 MEDIUM, 3 LOW, 4 the overall summary
TierOfRank(k) == IF k <= 5 THEN 1 ELSE IF k <= 8 THEN 2 ELSE IF k = 9 THEN 3 ELSE 4

\* C11: for assessments that are not empty, the returned list holds the
\* HIGH-tier narratives in the order remote access, lateral movement,
\* database, credential interception, desktop hijack, then the MEDIUM-tier
\* ones in the order web, email, DNS, then the LOW-tier one, then the overall
\* summary: no narrative of a lower tier precedes one of a higher tier.
C11_NarrativeOrder ==
    (Simulated /\ risk_results # <<>>) =>
        /\ \A i \in DOMAIN attack_scenarios : Rank(attack_scenarios[i]) \in 1 .. 10
        /\ \A i, j \in DOMAIN attack_scenarios :
              i < j => /\ Rank(attack_scenarios[i]) < Rank(attack_scenarios[j])
                       /\ TierOfRank(Rank(attack_scenarios[i]))
                             <= TierOfRank(Rank(attack_scenarios[j]))
        /\ Rank(attack_scenarios[Len(attack_scenarios)]) = 10

\* scenarios with two HIGH-tier narratives, a MEDIUM-tier one, the LOW-tier
\* one and the summary
C11_Witness ==
    /\ Simulated
    /\ Len(attack_scenarios) >= 5
    /\ {1, 4, 6, 9, 10} \subseteq {Rank(attack_scenarios[i]) : i \in DOMAIN attack_scenarios}

\* the number of assessments of a tier
TierCount(level) ==
    Cardinality({i \in DOMAIN risk_results : risk_results[i].risk_level = level})

\* the last element of the returned list
LastScenario == attack_scenarios[Len(attack_scenarios)]

\* C12: for assessments that are not empty, the returned list holds exactly
\* one overall summary, as its last element: the critical summary with the
\* number of HIGH assessments if there is a HIGH one, else the moderate
\* summary with the number of MEDIUM assessments if there is a MEDIUM one,
\* else the minimal-surface summary.
C12_OneSummaryLast ==
    (Simulated /\ risk_results # <<>>) =>
        /\ Cardinality({i \in DOMAIN attack_scenarios : Rank(attack_scenarios[i]) = 10}) = 1
        /\ Rank(LastScenario) = 10
        /\ IF TierCount("HIGH") > 0
           THEN Contains(LastScenario,
                    "SUMMARY: System has " \o ToString(TierCount("HIGH"))
                        \o " critical vulnerabilities.")
           ELSE IF TierCount("MEDIUM") > 0
           THEN Contains(LastScenario,
                    "SUMMARY: System has " \o ToString(TierCount("MEDIUM"))
                        \o " moderate vulnerabilities.")
           ELSE Contains(LastScenario, "SUMMARY: System shows minimal attack surface")

\* the summary of one HIGH and two MEDIUM assessments
C12_Witness ==
    /\ Simulated
    /\ TierCount("HIGH") = 1
    /\ TierCount("MEDIUM") = 2
    /\ Contains(LastScenario, "System has 1 critical vulnerabilities.")

\* the group of services of the rule whose narrative has place k
RuleGroup(k) ==
    CASE k = 1 -> {"RDP", "SSH", "Telnet"}
      [] k = 2 -> {"SMB", "FTP"}
      [] k = 3 -> {"MySQL", "PostgreSQL"}
      [] k = 4 -> {"Telnet"}
      [] k = 5 -> {"VNC"}
      [] k = 6 -> {"HTTP", "HTTP-Proxy", "HTTPS-Alt"}
      [] k = 7 -> {"SMTP", "POP3", "IMAP"}
      [] k = 8 -> {"DNS"}

RuleTier(k) == IF k <= 5 THEN "HIGH" ELSE "MEDIUM"

\* the number of narratives with place k in the returned list
Fired(k) == Cardinality({i \in DOMAIN attack_scenarios : Rank(attack_scenarios[i]) = k})

\* C13: each of the five HIGH rules and three MEDIUM rules contributes one
\* narrative if an assessment of its tier has a service of its group and
\* none otherwise, whatever the other rules do, and the LOW tier contributes
\* one narrative if there is a LOW assessment and none otherwise.
C13_RulesFireIndependently ==
    (Simulated /\ risk_results # <<>>) =>
        /\ \A k \in 1 .. 8 :
              Fired(k) = (IF \E i \in DOMAIN risk_results :
                                /\ risk_results[i].risk_level = RuleTier(k)
                                /\ risk_results[i].service \in RuleGroup(k)
                          THEN 1 ELSE 0)
        /\ Fired(9) = (IF TierCount("LOW") > 0 THEN 1 ELSE 0)

\* three HIGH rules and two MEDIUM rules fire on the same assessments
C13_Witness ==
    /\ Simulated
    /\ Fired(1) = 1 /\ Fired(2) = 1 /\ Fired(4) = 1
    /\ Fired(6) = 1 /\ Fired(7) = 1
    /\ Fired(9) = 0

\* narrative s lists the service(port) pair of assessment r
ListsPair(s, r) == Contains(s, r.service \o "(" \o ToString(r.port) \o ")")

\* C14: the narrative of a rule of the HIGH or the MEDIUM tier that fired
\* lists the service(port) pairs of the assessments of its tier whose service
\* is in the rule's group, and lists no other pair.
C14_ListsMatchingPairs ==
    (Simulated /\ risk_results # <<>>) =>
        \A i \in DOMAIN attack_scenarios :
            Rank(attack_scenarios[i]) \in 1 .. 8 =>
                \A j \in DOMAIN risk_results :
                    ListsPair(attack_scenarios[i], risk_results[j])
                        <=> /\ risk_results[j].risk_level = RuleTier(Rank(attack_scenarios[i]))
                            /\ risk_results[j].service \in RuleGroup(Rank(attack_scenarios[i]))

\* generate_executive_summary has been applied to risk_results and the score
Summarized == rpc = "summarized"

\* the entries of priority_actions that name a tier, and the other one
IsHighAction(a) == Contains(a, " HIGH risk service")

IsMediumAction(a) == Contains(a, " MEDIUM risk service")

IsMaintainAction(a) == Contains(a, "maintain security posture")

\* C15: the summary carries the number of assessments of each tier;
\* priority_actions is never empty and holds a HIGH entry that names
\* high_count iff high_count > 0, after it a MEDIUM entry that names
\* medium_count iff medium_count > 0, and the one maintain-posture entry iff
\* both counts are 0; the rating is the rating of the score passed in.
C15_ExecutiveSummary ==
    Summarized =>
        LET pa == summary.priority_actions
            h == TierCount("HIGH")
            m == TierCount("MEDIUM")
        IN  /\ summary.high_risk_count = h
            /\ summary.medium_risk_count = m
            /\ summary.low_risk_count = TierCount("LOW")
            /\ pa # <<>>
            /\ Len(pa) = (IF h > 0 THEN 1 ELSE 0) + (IF m > 0 THEN 1 ELSE 0)
                            + (IF h = 0 /\ m = 0 THEN 1 ELSE 0)
            /\ h > 0 => /\ IsHighAction(pa[1])
                        /\ Contains(pa[1], " " \o ToString(h) \o " HIGH")
            /\ m > 0 => /\ IsMediumAction(pa[Len(pa)])
                        /\ Contains(pa[Len(pa)], " " \o ToString(m) \o " MEDIUM")
            /\ (h = 0 /\ m = 0) => IsMaintainAction(pa[1])
            /\ \A i \in DOMAIN pa :
                  /\ IsHighAction(pa[i]) => h > 0
                  /\ IsMediumAction(pa[i]) => m > 0
                  /\ IsMaintainAction(pa[i]) => (h = 0 /\ m = 0)
            /\ summary.security_score = security_score
            /\ summary.rating = get_security_rating(security_score).rating

\* a summary of assessments with two HIGH and one MEDIUM tier
C15_Witness ==
    /\ Summarized
    /\ TierCount("HIGH") = 2
    /\ TierCount("MEDIUM") = 1
    /\ Len(summary.priority_actions) = 2

\* assess_risks has been applied to risk_input
Assessed == rpc \in {"assessed", "scored", "simulated", "summarized"}

\* C16: in the pipeline assess_risks, calculate_security_score,
\* generate_executive_summary there is one assessment per open port, in the
\* same order and with the same port and service; the three counts add up to
\* the number of open ports; the score is max(0, 100 - 30 high - 15 medium
\* - 5 low) and the rating is the rating of that score; the open ports
\* 22 SSH, 23 Telnet, 80 HTTP, 443 HTTPS, 3389 RDP give the score 15, the
\* rating CRITICAL and the counts 2, 1, 2.
C16_Pipeline ==
    /\ Assessed =>
          /\ Len(risk_results) = Len(risk_input)
          /\ \A i \in DOMAIN risk_input :
                /\ risk_results[i].port = risk_input[i].port
                /\ risk_results[i].service = risk_input[i].service
    /\ Summarized =>
          LET h == summary.high_risk_count
              m == summary.medium_risk_count
              l == summary.low_risk_count
              raw == 100 - 30 * h - 15 * m - 5 * l
              score == summary.security_score
          IN  /\ h + m + l = Len(risk_input)
              /\ summary.total_open_ports = Len(risk_input)
              /\ score = (IF raw < 0 THEN 0 ELSE raw)
              /\ summary.rating = (IF score >= 90 THEN "EXCELLENT"
                                   ELSE IF score >= 70 THEN "GOOD"
                                   ELSE IF score >= 50 THEN "FAIR"
                                   ELSE IF score >= 30 THEN "POOR"
                                   ELSE "CRITICAL")
              /\ {risk_input[i].port : i \in DOMAIN risk_input} = {22, 23, 80, 443, 3389}
                    => /\ score = 15
                       /\ summary.rating = "CRITICAL"
                       /\ h = 2 /\ m = 1 /\ l = 2

\* the summary of the five open ports 22, 23, 80, 443, 3389
C16_Witness ==
    /\ Summarized
    /\ risk_input = test_ports
    /\ summary.security_score = 15

(***************************************************************************)
(* Claims about the scanner: termination, exclusion, resources, reuse      *)
(***************************************************************************)
\* a step of the scan of caller c: of its coordinator or of one of its workers
StepOfScan(c) ==
    \/ PutPort(c)
    \/ JoinQueue(c)
    \/ PutStop(c)
    \/ JoinThread(c)
    \/ SortResults(c)
    \/ ScanReturn(c)
    \/ \E t \in Threads :
        \/ WorkerGet(c, t)
        \/ WorkerScanPort(c, t)
        \/ WorkerLock(c, t)
        \/ WorkerAppend(c, t)
        \/ WorkerTaskDone(c, t)

\* scan() has been entered by caller c and has not returned
InScan(c) == pc[c] \notin {"idle", "returned"}

\* C17: a scan with at least one worker, whose connect attempts all
\* complete, always terminates: as long as it has not returned, its
\* coordinator or one of its workers can take a step, so it is never left
\* waiting for something that cannot happen; a worker that has ended has
\* consumed a sentinel, and no sentinel is in the queue before the queue has
\* been joined.
C17_ScanTerminates ==
    \A c \in Callers :
        /\ InScan(c) => ENABLED StepOfScan(c)
        /\ \A t \in Threads : wpc[c][t] = "exit" => wport[c][t] = None
        /\ pc[c] \in {"put_ports", "join_queue"} =>
              \A i \in DOMAIN queue : queue[i] # None

\* the workers inside the with block
InAppendSection == {w \in Callers \X Threads : wpc[w[1]][w[2]] = "append"}

\* the workers of caller c that hold port p in one of the positions pos
Holders(c, p, pos) == {t \in Threads : wpc[c][t] \in pos /\ wport[c][t] = p}

\* how often port p is in the queue, and in the open-ports list
InQueue(p) == Cardinality({i \in DOMAIN queue : queue[i] = p})

Entries(p) ==
    Cardinality({i \in DOMAIN heap[open_ports] : heap[open_ports][i].port = p})

\* C18: at most one worker is inside the append section, and it holds the
\* lock; in every state of a scan each port that was put is either once in
\* the queue or with exactly one worker or done; a port has one entry in the
\* list once its successful probe has been appended, one worker on its way
\* to append it before that, and never an entry otherwise.
C18_AppendExclusive ==
    /\ Cardinality(InAppendSection) <= 1
    /\ \A w \in InAppendSection : lock = w
    /\ \A c \in Callers : (InScan(c) \/ Returned(c)) =>
          \A p \in Range(c) :
              LET taken == Holders(c, p, {"scan_port", "lock", "append", "task_done"})
                  toAppend == Holders(c, p, {"lock", "append"})
              IN  /\ InQueue(p) + Cardinality(taken) <= 1
                  /\ p >= port_i[c] => InQueue(p) + Cardinality(taken) = 0
                  /\ (p < port_i[c] /\ probe[c][p] = "none") =>
                        InQueue(p) + Cardinality(Holders(c, p, {"scan_port"})) = 1
                  /\ Entries(p) + Cardinality(toAppend)
                        = (IF probe[c][p] = "connected" THEN 1 ELSE 0)

\* one worker is inside the append section while the other waits for the lock
C18_Witness ==
    \E c \in Callers, t, u \in Threads :
        /\ wpc[c][t] = "append"
        /\ wpc[c][u] = "lock"
        /\ lock = <<c, t>>

\* C19: every socket that scan_port opens is closed before scan_port
\* returns, whatever the outcome of the attempt: no socket is left open by
\* an attempt that is over, and none is open when scan() has returned.
C19_SocketsClosed ==
    \A c \in Callers :
        /\ open_sockets[c] = 0
        /\ Returned(c) => open_sockets[c] = 0

\* C20: scans invoked one after another share no state: when scan() has
\* returned, the work queue is as it was when the instance was built, with
\* no port, no sentinel and no task counted as unfinished, the lock is free
\* and every worker of the scan has ended; the returned list holds only
\* ports that the scan's own probes found connected.
C20_NoCarryOver ==
    \A c \in Callers : Returned(c) =>
        /\ queue = <<>>
        /\ unfinished_tasks = 0
        /\ lock = <<0, 0>>
        /\ \A t \in Threads : wpc[c][t] = "exit"
        /\ PortsOf(Result(c)) \subseteq Connected(c)

====
